---- MODULE Spec2Model ----
(***************************************************************************)
(* Model of app.py, the level-crossing search map (Streamlit + folium).    *)
(*                                                                         *)
(* Three state machines share the module:                                  *)
(*   Spec        one run of the page script: load_data, the sidebar,       *)
(*               the filter block, the main block (lines 256-360);         *)
(*   SpecExport  create_multifilter_map_html applied to a Filtered view,   *)
(*               and the embedded script of the document it returns        *)
(*               (lines 41-251);                                           *)
(*   SpecFormat  format_kilopost applied to one value (lines 13-23).       *)
(*                                                                         *)
(* Strings are sequences of code points, so that ordering, case folding    *)
(* and substring search are computed rather than assumed.  A table cell is *)
(* a record [t, s, n]: missing (NaN), a string s, or a number n.           *)
(* Column keys are written with the payload's names:                       *)
(*   name = 踏切名, line = 線名, shisha = 支社名,                          *)
(*   kasho = 箇所名（系統名なし）, type = 踏切種別,                        *)
(*   kilo = 中心位置キロ程, Lat, Lon.                                      *)
(***************************************************************************)
EXTENDS Integers, Sequences, FiniteSets, TLC

VARIABLES
    pc,                  \* position of the machine that is running
    file,                \* the CSV at DATA_PATH: [exists, parsable, content]
    df,                  \* the loaded Dataset (page) / the function's argument (export)
    messages,            \* st.error / st.warning / st.info calls of the run
    search_name, selected_line, selected_shisha, selected_kasho, selected_type,
    selected_kilo_range, \* <<>> is None, <<lo, hi>> the slider's value
    filtered_df,         \* the Filtered view
    m_main,              \* the page's folium map: [made, center_lat, center_lon, markers]
    error,               \* the exception that ended the run, "" when none
    html,                \* what create_multifilter_map_html built
    script,              \* the document's script: "unopened", "failed", "ready"
    nameInput,           \* value of #name-filter
    selects,             \* per field: [options, value] of the <select>
    onMap,               \* ids of the marker layers currently on the map
    countDiv,            \* the number in #results-count, -1 while never written
    fk_value, fk_result  \* format_kilopost's argument and return value

vars == <<pc, file, df, messages, search_name, selected_line, selected_shisha,
          selected_kasho, selected_type, selected_kilo_range, filtered_df, m_main,
          error, html, script, nameInput, selects, onMap, countDiv,
          fk_value, fk_result>>

pageVars == <<file, messages, search_name, selected_line, selected_shisha,
              selected_kasho, selected_type, selected_kilo_range, filtered_df,
              m_main>>
exportVars == <<html, script, nameInput, selects, onMap, countDiv>>
formatVars == <<fk_value, fk_result>>

-----------------------------------------------------------------------------
(* Bounds of the model.                                                    *)

MaxRows == 2          \* rows of a Dataset that varies names and categories
MaxKiloRows == 3      \* rows of a Dataset that varies kilometer-posts
MaxCoordRows == 2     \* rows of a Dataset that varies coordinates
MaxKm == 2            \* format_kilopost: whole kilometers of the inputs
MaxOffset == 30       \* format_kilopost: ticks next to a kilometer boundary

-----------------------------------------------------------------------------
(* Cells and strings.                                                      *)

Missing == [t |-> "nan", s |-> << >>, n |-> 0]
Str(s) == [t |-> "str", s |-> s, n |-> 0]
Num(n) == [t |-> "num", s |-> << >>, n |-> n]

isna(c) == c.t = "nan"
notna(c) == c.t # "nan"

\* 'すべて' (U+3059 U+3079 U+3066), the "unconstrained" option
Sentinel == <<12377, 12409, 12390>>
EmptyStr == << >>
chr_a == <<97>>
chr_A == <<65>>
chr_dot == <<46>>
chr_east == <<26481>>    \* '東', sorts after 'すべて'; 'A' sorts before it

\* Python's and JavaScript's string order on the Basic Multilingual Plane
StrLess(a, b) ==
    \E i \in 1..(Len(b)) :
        /\ i <= Len(a) + 1
        /\ \A j \in 1..(i - 1) : a[j] = b[j]
        /\ (i = Len(a) + 1 \/ a[i] < b[i])

RECURSIVE SortedSeq(_)
\* sorted(list) / Array.prototype.sort() on a collection of distinct strings
SortedSeq(S) ==
    IF S = {} THEN << >>
    ELSE LET m == CHOOSE x \in S : \A y \in S \ {x} : StrLess(x, y)
         IN <<m>> \o SortedSeq(S \ {m})

\* str.__contains__ / String.prototype.includes: a literal substring
Includes(s, t) ==
    \E i \in 0..(Len(s) - Len(t)) : \A j \in 1..Len(t) : s[i + j] = t[j]

\* re.search(pat, s) for patterns made of ordinary characters and '.':
\* '.' matches any one character, every other character matches itself
re_search(pat, s) ==
    \E i \in 0..(Len(s) - Len(pat)) :
        \A j \in 1..Len(pat) : pat[j] = 46 \/ pat[j] = s[i + j]

\* String.prototype.toLowerCase on the letters A-Z
toLowerCase(s) ==
    [i \in 1..Len(s) |-> IF s[i] >= 65 /\ s[i] <= 90 THEN s[i] + 32 ELSE s[i]]

-----------------------------------------------------------------------------
(* DataFrames.                                                             *)

CatCols == <<"line", "shisha", "kasho", "type">>
AllCols == {"name", "line", "shisha", "kasho", "type", "kilo", "Lat", "Lon"}

\* pd.DataFrame(): no columns, no rows
EmptyDF == [cols |-> {}, rows |-> << >>]

\* DataFrame.empty: any axis of length 0
empty(d) == d.cols = {} \/ d.rows = << >>

Row(name, line, shisha, kasho, type, kilo, lat, lon) ==
    [name |-> name, line |-> line, shisha |-> shisha, kasho |-> kasho,
     type |-> type, kilo |-> kilo, Lat |-> lat, Lon |-> lon]

RowSet(S) == {S[i] : i \in 1..Len(S)}

Cells(rows, col) == [i \in 1..Len(rows) |-> rows[i][col]]

\* Series.dropna(): the non-missing cells, in order
dropna(cells) == SelectSeq(cells, notna)

-----------------------------------------------------------------------------
(* Input Datasets.  Every family varies one group of fields over all its   *)
(* rows and keeps the other fields at the values of a complete row.        *)

RECURSIVE SeqsUpTo(_, _)
SeqsUpTo(S, n) ==
    IF n = 0 THEN {<< >>}
    ELSE LET shorter == SeqsUpTo(S, n - 1)
         IN shorter \cup {Append(q, x) : q \in shorter, x \in S}

NameCells == {Missing, Str(chr_a), Str(chr_A)}
LineCells == {Missing, Str(chr_A), Str(chr_east)}
OtherCatCells == {Missing, Str(chr_A)}
KiloCells == {Missing, Num(0), Num(1000), Num(2000)}
LatCells == {Missing, Num(35), Num(37)}
LonCells == {Missing, Num(139)}

NameLineRows ==
    {Row(nm, ln, Str(chr_A), Str(chr_A), Str(chr_A), Num(1000), Num(35), Num(139)) :
        nm \in NameCells, ln \in LineCells}
CatRows ==
    {Row(Str(chr_a), Str(chr_east), sh, ka, ty, Num(1000), Num(35), Num(139)) :
        sh \in OtherCatCells, ka \in OtherCatCells, ty \in OtherCatCells}
KiloRows ==
    {Row(Str(chr_a), Str(chr_east), Str(chr_A), Str(chr_A), Str(chr_A), kp,
         Num(35), Num(139)) : kp \in KiloCells}
CoordRows ==
    {Row(Str(chr_a), Str(chr_east), Str(chr_A), Str(chr_A), Str(chr_A), Num(1000),
         la, lo) : la \in LatCells, lo \in LonCells}

FullSchema(rowSeqs) == {[cols |-> AllCols, rows |-> q] : q \in rowSeqs}

\* a CSV whose header lacks one column: the rows carry no value for it
NarrowSchema ==
    {[cols |-> AllCols \ {c},
      rows |-> <<[Row(Str(chr_a), Str(chr_east), Str(chr_A), Str(chr_A), Str(chr_A),
                      Num(1000), Num(35), Num(139)) EXCEPT ![c] = Missing]>>] :
        c \in AllCols}

Datasets ==
    FullSchema(SeqsUpTo(NameLineRows, MaxRows))
    \cup FullSchema(SeqsUpTo(CatRows, MaxRows))
    \cup FullSchema(SeqsUpTo(KiloRows, MaxKiloRows))
    \cup FullSchema(SeqsUpTo(CoordRows, MaxCoordRows))
    \cup NarrowSchema

\* what the user can type into a text box
Texts == {EmptyStr, chr_a, chr_A, chr_dot}

Files ==
    {[exists |-> FALSE, parsable |-> FALSE, content |-> EmptyDF],
     [exists |-> TRUE, parsable |-> FALSE, content |-> EmptyDF]}
    \cup {[exists |-> TRUE, parsable |-> TRUE, content |-> d] : d \in Datasets}

-----------------------------------------------------------------------------
(* The page script.                                                        *)

NoMap == [made |-> FALSE, center_lat |-> [sum |-> 0, n |-> 0],
          center_lon |-> [sum |-> 0, n |-> 0], markers |-> << >>]

\* load_data's return value
load_data_result(f) ==
    IF f.exists /\ f.parsable THEN f.content ELSE EmptyDF

\* a load_data that swallows a parse failure without telling the user
load_data_messages_missing_only(f) ==
    IF ~f.exists THEN {"error: data file not found", "error: check the data folder"}
    ELSE {}

\* load_data's st.error calls
load_data_messages(f) ==
    IF ~f.exists THEN {"error: data file not found", "error: check the data folder"}
    ELSE IF ~f.parsable THEN {"error: reading the CSV failed"}
    ELSE {}

load_data ==
    /\ pc = "load"
    /\ df' = load_data_result(file)
    /\ messages' = messages \cup load_data_messages(file)
    /\ pc' = "sidebar"
    /\ UNCHANGED <<file, search_name, selected_line, selected_shisha, selected_kasho,
                   selected_type, selected_kilo_range, filtered_df, m_main, error>>
    /\ UNCHANGED <<exportVars, formatVars>>

\* ['すべて'] + sorted(df[col].dropna().astype(str).unique().tolist())
unique_options(d, col) ==
    LET present == dropna(Cells(d.rows, col))
    IN <<Sentinel>> \o SortedSeq({present[i].s : i \in 1..Len(present)})

SeqMin(q) == CHOOSE x \in RowSet(q) : \A y \in RowSet(q) : x <= y
SeqMax(q) == CHOOSE x \in RowSet(q) : \A y \in RowSet(q) : x >= y

KiloNumbers(d) ==
    LET present == dropna(Cells(d.rows, "kilo"))
    IN [i \in 1..Len(present) |-> present[i].n]

\* the slider exists: the column is there, has values, and min < max
slider_shown(d) ==
    /\ "kilo" \in d.cols
    /\ KiloNumbers(d) # << >>
    /\ SeqMin(KiloNumbers(d)) < SeqMax(KiloNumbers(d))

\* the values the slider can be dragged to, its initial value being (min, max)
slider_values(d) ==
    LET lo == SeqMin(KiloNumbers(d))
        hi == SeqMax(KiloNumbers(d))
        stops == {c.n : c \in {k \in KiloCells : notna(k)}}
        within == {x \in stops : lo <= x /\ x <= hi}
    IN {p \in within \X within : p[1] <= p[2]}

\* df[col] on a column the header lacks
sidebar_KeyError ==
    /\ pc = "sidebar"
    /\ ~empty(df)
    /\ \E i \in 1..Len(CatCols) : CatCols[i] \notin df.cols
    /\ error' = "KeyError"
    /\ pc' = "error"
    /\ UNCHANGED <<df, pageVars, exportVars, formatVars>>

sidebar_widgets ==
    /\ pc = "sidebar"
    /\ ~empty(df)
    /\ \A i \in 1..Len(CatCols) : CatCols[i] \in df.cols
    /\ search_name' \in Texts
    /\ selected_line' \in RowSet(unique_options(df, "line"))
    /\ selected_shisha' \in RowSet(unique_options(df, "shisha"))
    /\ selected_kasho' \in RowSet(unique_options(df, "kasho"))
    /\ selected_type' \in RowSet(unique_options(df, "type"))
    /\ IF slider_shown(df)
       THEN selected_kilo_range' \in slider_values(df)
       ELSE selected_kilo_range' = << >>
    /\ pc' = "filter"
    /\ UNCHANGED <<df, file, messages, filtered_df, m_main, error>>
    /\ UNCHANGED <<exportVars, formatVars>>

sidebar_no_data ==
    /\ pc = "sidebar"
    /\ empty(df)
    /\ messages' = messages \cup {"warning: data could not be loaded"}
    /\ search_name' = EmptyStr
    /\ selected_line' = Sentinel
    /\ selected_shisha' = Sentinel
    /\ selected_kasho' = Sentinel
    /\ selected_type' = Sentinel
    /\ selected_kilo_range' = << >>
    /\ pc' = "filter"
    /\ UNCHANGED <<df, file, filtered_df, m_main, error>>
    /\ UNCHANGED <<exportVars, formatVars>>

\* Series.str.contains(pat, na=False): pat is a regular expression (regex=True
\* is the default), a missing cell gives False
str_contains(cell, pat) == notna(cell) /\ re_search(pat, cell.s)

\* lines 296-309: the masks are applied one after the other
filter_rows(rows, text, line, shisha, kasho, type, range) ==
    LET r1 == IF text # EmptyStr
              THEN SelectSeq(rows, LAMBDA r : notna(r.name) /\ str_contains(r.name, text))
              ELSE rows
        r2 == IF line # Sentinel
              THEN SelectSeq(r1, LAMBDA r : r.line = Str(line)) ELSE r1
        r3 == IF shisha # Sentinel
              THEN SelectSeq(r2, LAMBDA r : r.shisha = Str(shisha)) ELSE r2
        r4 == IF kasho # Sentinel
              THEN SelectSeq(r3, LAMBDA r : r.kasho = Str(kasho)) ELSE r3
        r5 == IF type # Sentinel
              THEN SelectSeq(r4, LAMBDA r : r.type = Str(type)) ELSE r4
        r6 == IF range # << >>
              THEN SelectSeq(SelectSeq(r5, LAMBDA r : notna(r.kilo)),
                             LAMBDA r : r.kilo.n >= range[1] /\ r.kilo.n <= range[2])
              ELSE r5
    IN r6

filter_data ==
    /\ pc = "filter"
    /\ ~(~empty(df) /\ search_name # EmptyStr /\ "name" \notin df.cols)
    /\ filtered_df' =
          IF empty(df) THEN EmptyDF
          ELSE [cols |-> df.cols,
                rows |-> filter_rows(df.rows, search_name, selected_line,
                                     selected_shisha, selected_kasho, selected_type,
                                     selected_kilo_range)]
    /\ pc' = "main"
    /\ UNCHANGED <<df, file, messages, search_name, selected_line, selected_shisha,
                   selected_kasho, selected_type, selected_kilo_range, m_main, error>>
    /\ UNCHANGED <<exportVars, formatVars>>

\* filtered_df['踏切名'] on a header without that column
filter_KeyError ==
    /\ pc = "filter"
    /\ ~empty(df) /\ search_name # EmptyStr /\ "name" \notin df.cols
    /\ error' = "KeyError"
    /\ pc' = "error"
    /\ UNCHANGED <<df, pageVars, exportVars, formatVars>>

RECURSIVE SumCells(_)
SumCells(cells) ==
    IF cells = << >> THEN 0 ELSE Head(cells).n + SumCells(Tail(cells))

\* Series.mean(): the mean of the column's own non-missing values, kept as
\* the fraction sum / n; n = 0 is NaN
mean(rows, col) ==
    LET present == dropna(Cells(rows, col))
    IN [sum |-> SumCells(present), n |-> Len(present)]

is_nan_mean(m) == m.n = 0

\* lines 317-320: one marker per row that has both coordinates
main_markers(rows) ==
    LET shown == SelectSeq(rows, LAMBDA r : notna(r.Lat) /\ notna(r.Lon))
    IN [i \in 1..Len(shown) |->
           [location |-> <<shown[i].Lat, shown[i].Lon>>, tooltip |-> shown[i].name]]

main_KeyError ==
    /\ pc = "main"
    /\ ~empty(filtered_df)
    /\ ("Lat" \notin filtered_df.cols \/ "Lon" \notin filtered_df.cols)
    /\ error' = "KeyError"
    /\ pc' = "error"
    /\ UNCHANGED <<df, pageVars, exportVars, formatVars>>

\* folium.Map(location=[nan, nan]): a folium that validates the location
\* raises ValueError, an older one takes the pair as it is
main_map_ValueError ==
    /\ pc = "main"
    /\ ~empty(filtered_df)
    /\ "Lat" \in filtered_df.cols /\ "Lon" \in filtered_df.cols
    /\ \/ is_nan_mean(mean(filtered_df.rows, "Lat"))
       \/ is_nan_mean(mean(filtered_df.rows, "Lon"))
    /\ error' = "ValueError"
    /\ pc' = "error"
    /\ UNCHANGED <<df, pageVars, exportVars, formatVars>>

\* lines 314-321: the map and its markers are built, then st_folium, a name
\* the file never imports, is called
main_map ==
    /\ pc = "main"
    /\ ~empty(filtered_df)
    /\ "Lat" \in filtered_df.cols /\ "Lon" \in filtered_df.cols
    /\ m_main' = [made |-> TRUE,
                  center_lat |-> mean(filtered_df.rows, "Lat"),
                  center_lon |-> mean(filtered_df.rows, "Lon"),
                  markers |-> main_markers(filtered_df.rows)]
    /\ error' = "NameError"
    /\ pc' = "error"
    /\ UNCHANGED <<df, file, messages, search_name, selected_line, selected_shisha,
                   selected_kasho, selected_type, selected_kilo_range, filtered_df>>
    /\ UNCHANGED <<exportVars, formatVars>>

main_no_match ==
    /\ pc = "main"
    /\ empty(filtered_df) /\ ~empty(df)
    /\ messages' = messages \cup {"warning: no crossing matches"}
    /\ pc' = "done"
    /\ UNCHANGED <<df, file, search_name, selected_line, selected_shisha,
                   selected_kasho, selected_type, selected_kilo_range, filtered_df,
                   m_main, error>>
    /\ UNCHANGED <<exportVars, formatVars>>

main_no_data ==
    /\ pc = "main"
    /\ empty(filtered_df) /\ empty(df)
    /\ messages' = messages \cup {"info: data could not be loaded"}
    /\ pc' = "done"
    /\ UNCHANGED <<df, file, search_name, selected_line, selected_shisha,
                   selected_kasho, selected_type, selected_kilo_range, filtered_df,
                   m_main, error>>
    /\ UNCHANGED <<exportVars, formatVars>>

\* the state in which the script starts a run
RunStart ==
    /\ pc = "load"
    /\ df = EmptyDF
    /\ messages = {}
    /\ search_name = EmptyStr
    /\ selected_line = Sentinel
    /\ selected_shisha = Sentinel
    /\ selected_kasho = Sentinel
    /\ selected_type = Sentinel
    /\ selected_kilo_range = << >>
    /\ filtered_df = EmptyDF
    /\ m_main = NoMap
    /\ error = ""

ExportIdle ==
    /\ html = [kind |-> "none", center_lat |-> [sum |-> 0, n |-> 0],
               center_lon |-> [sum |-> 0, n |-> 0], markers |-> << >>,
               markers_data |-> << >>]
    /\ script = "unopened"
    /\ nameInput = EmptyStr
    /\ selects = [f \in RowSet(CatCols) |-> [options |-> << >>, value |-> EmptyStr]]
    /\ onMap = {}
    /\ countDiv = -1

FormatIdle ==
    /\ fk_value = Missing
    /\ fk_result = Missing

\* a widget interaction: Streamlit runs the script again from the top
rerun ==
    /\ pc \in {"done", "error"}
    /\ pc' = "load"
    /\ df' = EmptyDF
    /\ messages' = {}
    /\ search_name' = EmptyStr
    /\ selected_line' = Sentinel
    /\ selected_shisha' = Sentinel
    /\ selected_kasho' = Sentinel
    /\ selected_type' = Sentinel
    /\ selected_kilo_range' = << >>
    /\ filtered_df' = EmptyDF
    /\ m_main' = NoMap
    /\ error' = ""
    /\ UNCHANGED <<file, exportVars, formatVars>>

Init ==
    /\ file \in Files
    /\ RunStart
    /\ ExportIdle
    /\ FormatIdle

Next ==
    \/ load_data
    \/ sidebar_KeyError
    \/ sidebar_widgets
    \/ sidebar_no_data
    \/ filter_data
    \/ filter_KeyError
    \/ main_KeyError
    \/ main_map_ValueError
    \/ main_map
    \/ main_no_match
    \/ main_no_data
    \/ rerun

Spec == Init /\ [][Next]_vars

-----------------------------------------------------------------------------
(* create_multifilter_map_html and the document it returns.                *)

NoHtml == [kind |-> "none", center_lat |-> [sum |-> 0, n |-> 0],
           center_lon |-> [sum |-> 0, n |-> 0], markers |-> << >>,
           markers_data |-> << >>]

\* df.fillna(''): every missing cell becomes the empty string
fillna(rows) ==
    [i \in 1..Len(rows) |->
        [c \in DOMAIN rows[i] |->
            IF isna(rows[i][c]) THEN Str(EmptyStr) ELSE rows[i][c]]]

\* row.get(col, default) on a row of df_safe, as the text json.dumps writes
get(row, cols, col, default) ==
    IF col \in cols THEN row[col].s ELSE default

RECURSIVE Ascending(_)
Ascending(S) ==
    IF S = {} THEN << >>
    ELSE LET m == CHOOSE x \in S : \A y \in S : x <= y
         IN <<m>> \o Ascending(S \ {m})

\* lines 61-62: the rows of df_safe that pass the test of the loop, by position
export_marked(rows) ==
    LET safe == fillna(rows)
    IN Ascending({i \in 1..Len(rows) : notna(safe[i].Lat) /\ notna(safe[i].Lon)})

\* lines 70-76: the markers; id stands for marker.get_name()
export_markers(d) ==
    LET safe == fillna(d.rows)
        at == export_marked(d.rows)
    IN [k \in 1..Len(at) |->
           [id |-> at[k],
            location |-> <<safe[at[k]].Lat, safe[at[k]].Lon>>,
            tooltip |-> get(safe[at[k]], d.cols, "name", EmptyStr)]]

\* lines 79-88: the payload
markers_data(d) ==
    LET safe == fillna(d.rows)
        at == export_marked(d.rows)
    IN [k \in 1..Len(at) |->
           [id |-> at[k],
            lat |-> safe[at[k]].Lat,
            lon |-> safe[at[k]].Lon,
            name |-> get(safe[at[k]], d.cols, "name", EmptyStr),
            line |-> get(safe[at[k]], d.cols, "line", EmptyStr),
            shisha |-> get(safe[at[k]], d.cols, "shisha", EmptyStr),
            kasho |-> get(safe[at[k]], d.cols, "kasho", EmptyStr),
            type |-> get(safe[at[k]], d.cols, "type", EmptyStr)]]

\* what a folium that validates locations rejects: a NaN center, or a marker
\* whose latitude or longitude is not a number
rejected_location(d) ==
    \/ is_nan_mean(mean(d.rows, "Lat"))
    \/ is_nan_mean(mean(d.rows, "Lon"))
    \/ \E k \in 1..Len(export_markers(d)) :
          \/ export_markers(d)[k].location[1].t # "num"
          \/ export_markers(d)[k].location[2].t # "num"

\* lines 45-46
create_html_no_data ==
    /\ pc = "generate"
    /\ empty(df)
    /\ html' = [NoHtml EXCEPT !.kind = "nodata"]
    /\ pc' = "document"
    /\ UNCHANGED <<df, error, script, nameInput, selects, onMap, countDiv>>
    /\ UNCHANGED <<pageVars, formatVars>>

\* folium.Map / folium.Marker raising on a location that is not a pair of numbers
create_html_ValueError ==
    /\ pc = "generate"
    /\ ~empty(df)
    /\ rejected_location(df)
    /\ error' = "ValueError"
    /\ pc' = "error"
    /\ UNCHANGED <<df, pageVars, exportVars, formatVars>>

\* lines 48-251; with a rejected location this is the run of a folium that
\* takes locations as they are
create_html ==
    /\ pc = "generate"
    /\ ~empty(df)
    /\ html' = [kind |-> "map",
                center_lat |-> mean(df.rows, "Lat"),
                center_lon |-> mean(df.rows, "Lon"),
                markers |-> export_markers(df),
                markers_data |-> markers_data(df)]
    /\ pc' = "document"
    /\ UNCHANGED <<df, error, script, nameInput, selects, onMap, countDiv>>
    /\ UNCHANGED <<pageVars, formatVars>>

AllIds(h) == {h.markers[k].id : k \in 1..Len(h.markers)}

\* populateSelect: ['すべて', ...new Set(values.filter(Boolean))].sort()
populateSelect(data, property) ==
    SortedSeq({Sentinel} \cup
              {v \in {data[k][property] : k \in 1..Len(data)} : v # EmptyStr})

\* lines 214-219
isVisible(data, nameFilter, lineFilter, shishaFilter, kashoFilter, typeFilter) ==
    /\ (nameFilter = EmptyStr \/ Includes(toLowerCase(data.name), nameFilter))
    /\ (lineFilter = Sentinel \/ data.line = lineFilter)
    /\ (shishaFilter = Sentinel \/ data.shisha = shishaFilter)
    /\ (kashoFilter = Sentinel \/ data.kasho = kashoFilter)
    /\ (typeFilter = Sentinel \/ data.type = typeFilter)

\* a forEach turn that adds the visible layers and never removes the others
showOrHide_never_hides(layers, id, visible) ==
    IF visible THEN layers \cup {id} ELSE layers

\* lines 221-230: one turn of the forEach, on the set of layers on the map
showOrHide(layers, id, visible) ==
    IF visible
    THEN (IF id \notin layers THEN layers \cup {id} ELSE layers)
    ELSE (IF id \in layers THEN layers \ {id} ELSE layers)

RECURSIVE forEachMarker(_, _, _, _, _)
forEachMarker(data, layers, visibleCount, nameFilter, sel) ==
    IF data = << >> THEN [onMap |-> layers, visibleCount |-> visibleCount]
    ELSE LET visible == isVisible(Head(data), nameFilter, sel["line"], sel["shisha"],
                                  sel["kasho"], sel["type"])
         IN forEachMarker(Tail(data), showOrHide(layers, Head(data).id, visible),
                          IF visible THEN visibleCount + 1 ELSE visibleCount,
                          nameFilter, sel)

\* applyFilters: the layers on the map and the count it writes
applyFilters(data, layers, nameValue, sel) ==
    forEachMarker(data, layers, 0, toLowerCase(nameValue), sel)

Values(sels) == [f \in DOMAIN sels |-> sels[f].value]

\* lines 170-179 stop with a TypeError when the page gives the handler no map
\* (`this.map`) or no marker ids (`get_name`): nothing else of the script runs,
\* and the markers folium put on the map stay there
script_fails ==
    /\ pc = "document" /\ html.kind = "map" /\ script = "unopened"
    /\ script' = "failed"
    /\ onMap' = AllIds(html)
    /\ UNCHANGED <<pc, df, error, html, nameInput, selects, countDiv>>
    /\ UNCHANGED <<pageVars, formatVars>>

\* DOMContentLoaded, lines 168-244: the selects are filled, each showing its
\* first option, and applyFilters runs once
script_ready ==
    /\ pc = "document" /\ html.kind = "map" /\ script = "unopened"
    /\ script' = "ready"
    /\ nameInput' = EmptyStr
    /\ selects' = [f \in RowSet(CatCols) |->
                     [options |-> populateSelect(html.markers_data, f),
                      value |-> Head(populateSelect(html.markers_data, f))]]
    /\ onMap' = applyFilters(html.markers_data, AllIds(html), EmptyStr,
                             Values(selects')).onMap
    /\ countDiv' = applyFilters(html.markers_data, AllIds(html), EmptyStr,
                                Values(selects')).visibleCount
    /\ UNCHANGED <<pc, df, error, html>>
    /\ UNCHANGED <<pageVars, formatVars>>

\* the 'input' listener of #name-filter
name_input ==
    /\ script = "ready"
    /\ nameInput' \in Texts
    /\ onMap' = applyFilters(html.markers_data, onMap, nameInput', Values(selects)).onMap
    /\ countDiv' = applyFilters(html.markers_data, onMap, nameInput',
                                Values(selects)).visibleCount
    /\ UNCHANGED <<pc, df, error, html, script, selects>>
    /\ UNCHANGED <<pageVars, formatVars>>

\* the 'change' listener of one of the four selects
select_change ==
    /\ script = "ready"
    /\ \E f \in RowSet(CatCols) : \E v \in RowSet(selects[f].options) :
          selects' = [selects EXCEPT ![f].value = v]
    /\ onMap' = applyFilters(html.markers_data, onMap, nameInput, Values(selects')).onMap
    /\ countDiv' = applyFilters(html.markers_data, onMap, nameInput,
                                Values(selects')).visibleCount
    /\ UNCHANGED <<pc, df, error, html, script, nameInput>>
    /\ UNCHANGED <<pageVars, formatVars>>

\* the Filtered views the function is given
ExportViews ==
    FullSchema(SeqsUpTo(NameLineRows, MaxRows))
    \cup FullSchema(SeqsUpTo(CatRows, MaxRows))
    \cup FullSchema(SeqsUpTo(CoordRows, MaxCoordRows))
    \cup {d \in NarrowSchema : d.cols \in {AllCols \ {"name"}, AllCols \ {"kilo"}}}

InitExport ==
    /\ file = [exists |-> TRUE, parsable |-> TRUE, content |-> EmptyDF]
    /\ pc = "generate"
    /\ df \in ExportViews
    /\ messages = {}
    /\ search_name = EmptyStr
    /\ selected_line = Sentinel
    /\ selected_shisha = Sentinel
    /\ selected_kasho = Sentinel
    /\ selected_type = Sentinel
    /\ selected_kilo_range = << >>
    /\ filtered_df = EmptyDF
    /\ m_main = NoMap
    /\ error = ""
    /\ ExportIdle
    /\ FormatIdle

NextExport ==
    \/ create_html_no_data
    \/ create_html_ValueError
    \/ create_html
    \/ script_fails
    \/ script_ready
    \/ name_input
    \/ select_change

SpecExport == InitExport /\ [][NextExport]_vars

-----------------------------------------------------------------------------
(* format_kilopost.  A numeric argument is counted in fiftieths of a metre *)
(* (1000 m = 50000), a grid on which no value lies halfway between two     *)
(* tenths; arguments are >= 0.                                             *)

RECURSIVE Digits(_)
\* the decimal digits of n >= 0 as text
Digits(n) ==
    IF n < 10 THEN <<48 + n>> ELSE Digits(n \div 10) \o <<48 + (n % 10)>>

RECURSIVE ZeroPad(_, _)
\* the 0 flag of a format spec: zeros on the left up to the width, never a cut
ZeroPad(text, width) ==
    IF Len(text) >= width THEN text ELSE ZeroPad(<<48>> \o text, width)

\* f"{meter:05.1f}": meter rounded to the nearest tenth, then padded to 5
format_05_1f(meter) ==
    LET tenths == (meter + 2) \div 5
    IN ZeroPad(Digits(tenths \div 10) \o <<46>> \o <<48 + (tenths % 10)>>, 5)

format_kilopost(value) ==
    IF isna(value) THEN Str(EmptyStr)
    ELSE IF value.t = "str" THEN value        \* float(value) raises ValueError
    ELSE LET kilo == value.n \div 50000       \* int(value / 1000)
             meter == value.n % 50000         \* value % 1000
         IN Str(Digits(kilo) \o <<107>> \o format_05_1f(meter) \o <<109>>)

FormatInputs ==
    {Missing, Str(chr_a), Str(chr_dot)}
    \cup {Num(k * 50000 + off) :
            k \in 0..MaxKm,
            off \in (0..MaxOffset) \cup ((50000 - MaxOffset)..49999) \cup {17280}}
    \cup {Num(617280)}                        \* 12345.6 m

format_call ==
    /\ pc = "call"
    /\ fk_result' = format_kilopost(fk_value)
    /\ pc' = "returned"
    /\ UNCHANGED <<df, error, fk_value, pageVars, exportVars>>

InitFormat ==
    /\ file = [exists |-> TRUE, parsable |-> TRUE, content |-> EmptyDF]
    /\ pc = "call"
    /\ df = EmptyDF
    /\ messages = {}
    /\ search_name = EmptyStr
    /\ selected_line = Sentinel
    /\ selected_shisha = Sentinel
    /\ selected_kasho = Sentinel
    /\ selected_type = Sentinel
    /\ selected_kilo_range = << >>
    /\ filtered_df = EmptyDF
    /\ m_main = NoMap
    /\ error = ""
    /\ ExportIdle
    /\ fk_value \in FormatInputs
    /\ fk_result = Missing

NextFormat == format_call

SpecFormat == InitFormat /\ [][NextFormat]_vars

-----------------------------------------------------------------------------
(* Properties.                                                             *)

\* the row predicate of the filter engine as specified: a literal,
\* case-sensitive substring; exact category matches; a closed range
SpecPredicate(r, text, line, shisha, kasho, type, range) ==
    /\ (text = EmptyStr \/ (notna(r.name) /\ Includes(r.name.s, text)))
    /\ (line = Sentinel \/ r.line = Str(line))
    /\ (shisha = Sentinel \/ r.shisha = Str(shisha))
    /\ (kasho = Sentinel \/ r.kasho = Str(kasho))
    /\ (type = Sentinel \/ r.type = Str(type))
    /\ (range = << >> \/ (notna(r.kilo) /\ range[1] <= r.kilo.n /\ r.kilo.n <= range[2]))

Complete(r) == notna(r.Lat) /\ notna(r.Lon)
CompleteIds(rows) == {i \in 1..Len(rows) : Complete(rows[i])}

\* two fractions sum / n denote the same number
SameMean(a, b) == a.n # 0 /\ b.n # 0 /\ a.sum * b.n = b.sum * a.n

Unconstrained ==
    /\ search_name = EmptyStr
    /\ selected_line = Sentinel
    /\ selected_shisha = Sentinel
    /\ selected_kasho = Sentinel
    /\ selected_type = Sentinel

\* C1: once the filter block has run, the Filtered view is exactly the rows of
\* the Dataset, in their order, that satisfy every active predicate of the
\* specified filter (literal case-sensitive substring, exact categories, range).
C1_FilterIsSpecPredicate ==
    pc = "main" =>
        filtered_df.rows =
            SelectSeq(df.rows,
                      LAMBDA r : SpecPredicate(r, search_name, selected_line,
                                               selected_shisha, selected_kasho,
                                               selected_type, selected_kilo_range))

\* C2: in the open document a payload record is shown exactly when the live
\* filter, given the same text and selections and no range, keeps its row.
C2_ExportAgreesWithLiveFilter ==
    script = "ready" =>
        \A k \in 1..Len(html.markers_data) :
            (html.markers_data[k].id \in onMap) <=>
                filter_rows(<<df.rows[html.markers_data[k].id]>>, nameInput,
                            selects["line"].value, selects["shisha"].value,
                            selects["kasho"].value, selects["type"].value,
                            << >>) # << >>

\* C3: with empty text, every selection at the sentinel, and the range control
\* absent or at its initial full extent, the Filtered view equals the Dataset.
C3_NoConstraintKeepsDataset ==
    (/\ pc = "main"
     /\ ~empty(df)
     /\ Unconstrained
     /\ \/ selected_kilo_range = << >>
        \/ /\ slider_shown(df)
           /\ selected_kilo_range =
                 <<SeqMin(KiloNumbers(df)), SeqMax(KiloNumbers(df))>>)
    => filtered_df = df

\* C4: every option list, of the page and of the document, is the sentinel
\* first, then the distinct non-missing values of the field in ascending order.
C4_SentinelFirstThenSorted ==
    script = "ready" =>
        \A f \in RowSet(CatCols) :
            /\ selects[f].options =
                  <<Sentinel>> \o
                  SortedSeq({v \in {html.markers_data[k][f] :
                                       k \in 1..Len(html.markers_data)} :
                                v # EmptyStr})
            /\ Head(unique_options(df, f)) = Sentinel
            /\ Tail(unique_options(df, f)) =
                  SortedSeq({c.s : c \in {x \in RowSet(Cells(df.rows, f)) : notna(x)}})

\* C5: once generation has ended, the markers and the payload records are, one
\* each, those of the rows with both coordinates present, and the page's
\* marker loop makes one marker for each of the same rows.
C5_MarkersOnlyForCompleteRows ==
    (pc \in {"document", "error"} /\ ~empty(df)) =>
        /\ {html.markers[k].id : k \in 1..Len(html.markers)} = CompleteIds(df.rows)
        /\ Len(html.markers) = Cardinality(CompleteIds(df.rows))
        /\ {html.markers_data[k].id : k \in 1..Len(html.markers_data)}
              = CompleteIds(df.rows)
        /\ Len(html.markers_data) = Cardinality(CompleteIds(df.rows))
        /\ Len(main_markers(df.rows)) = Cardinality(CompleteIds(df.rows))

FilterableCols == {"line", "shisha", "kasho", "type", "kilo"}

\* C6: when the header of a non-empty Dataset lacks a filterable column, no
\* error is raised for it and the run goes on with that filter unconstrained.
C6_AbsentFieldRaisesNothing ==
    (/\ pc # "load"
     /\ ~empty(df)
     /\ \E c \in FilterableCols : c \notin df.cols)
    => /\ error # "KeyError"
       /\ pc # "sidebar" =>
             /\ "line" \notin df.cols => selected_line = Sentinel
             /\ "shisha" \notin df.cols => selected_shisha = Sentinel
             /\ "kasho" \notin df.cols => selected_kasho = Sentinel
             /\ "type" \notin df.cols => selected_type = Sentinel
             /\ "kilo" \notin df.cols => selected_kilo_range = << >>

BadFile == ~file.exists \/ ~file.parsable

\* C7: with the file missing or unparsable the run raises nothing: the failure
\* is reported, the Dataset is empty, the criteria are the unconstrained ones,
\* the Filtered view is empty, no map is made, and the run ends on the
\* informational message.
C7_BadFileDegrades ==
    BadFile =>
        /\ error = "" /\ pc # "error"
        /\ m_main = NoMap
        /\ html = NoHtml     \* the export is generated inside the map's block
        /\ pc # "load" =>
              /\ df = EmptyDF
              /\ ~file.exists => "error: data file not found" \in messages
              /\ (file.exists /\ ~file.parsable) =>
                    "error: reading the CSV failed" \in messages
        /\ pc \in {"filter", "main", "done"} =>
              /\ Unconstrained /\ selected_kilo_range = << >>
              /\ "warning: data could not be loaded" \in messages
        /\ pc \in {"main", "done"} => empty(filtered_df)
        /\ pc = "done" => "info: data could not be loaded" \in messages
        /\ pc # "done" => ENABLED Next

C7_Witness ==
    /\ file.exists /\ ~file.parsable
    /\ pc = "done"
    /\ "info: data could not be loaded" \in messages

\* C8: a missing argument gives '', a non-numeric one is returned unchanged,
\* and a number v >= 0 gives <K>k<MMM.D>m with K = floor(v / 1000) and MMM.D
\* three integer digits and one decimal, v mod 1000 to the nearest tenth.
C8_KilopostShape ==
    pc = "returned" =>
        /\ isna(fk_value) => fk_result = Str(EmptyStr)
        /\ fk_value.t = "str" => fk_result = fk_value
        /\ fk_value.t = "num" =>
              \E m \in 0..999 : \E d \in 0..9 :
                  /\ fk_result =
                        Str(Digits(fk_value.n \div 50000) \o <<107>> \o
                            <<48 + (m \div 100), 48 + ((m \div 10) % 10), 48 + (m % 10)>>
                            \o <<46, 48 + d>> \o <<109>>)
                  /\ (10 * m + d) * 5 - (fk_value.n % 50000) \in -2..2

C10_CenterOverCompleteRows ==
    LET complete == SelectSeq(filtered_df.rows, Complete)
    IN /\ m_main.made =>
             /\ complete # << >>
             /\ SameMean(m_main.center_lat, mean(complete, "Lat"))
             /\ SameMean(m_main.center_lon, mean(complete, "Lon"))
       /\ error # "ValueError"

====
